---- MODULE Spec2Model ----
(***************************************************************************)
(* Device reconciliation in raspberry-pi-network-monitor.                  *)
(*                                                                         *)
(* The repository ships three entry points that reconcile an nmap scan     *)
(* against a device registry:                                              *)
(*   app_with_postgres.py  NetworkMonitorApp.scan_and_process, registry in *)
(*                         the PostgreSQL table `devices`;                 *)
(*   app.py                DeviceManager.merge_scan_results, registry in   *)
(*                         known_devices.json;                             *)
(*   network_monitor.py    process_scan_results, same file registry.       *)
(* One behaviour of the model is one run of one of them (variable app).    *)
(***************************************************************************)
EXTENDS Integers, Sequences, FiniteSets, TLC

VARIABLES
  app,            \* which entry point this run is
  alive,          \* FALSE once an exception left the polling loop
  cycle,          \* number of polling cycles started
  clock,          \* datetime.utcnow(), in ticks
  store,          \* table devices: stored mac_address -> row
  nm_result,      \* what scan_network returned in the latest cycle
  outcome,        \* how the latest cycle ended
  loaded,         \* scan_and_process: the dict load_all_devices returned
  all_devices,    \* scan_and_process: that dict after the cycle's updates
  found_macs,     \* scan_and_process: found_macs after the cycle
  upserts,        \* scan_and_process: the upsert_device calls of the cycle
  lookups,        \* vendor_db.get_vendor calls of the cycle
  known_file,     \* known_devices.json: the list of dicts it holds
  known_devices,  \* the list load_known_devices returned, as later mutated
  connected_devices, \* first list returned by the latest merge/process call
  unknown_devices,   \* second list returned by the latest merge/process call
  sink,           \* the devices handed to InfluxDB in the latest cycle
  init_run        \* app.py --initialize: what initialize_known_devices did

vars == <<app, alive, cycle, clock, store, nm_result, outcome,
          loaded, all_devices, found_macs, upserts, lookups,
          known_file, known_devices, connected_devices, unknown_devices, sink,
          init_run>>

pgVars == <<store, loaded, all_devices, found_macs, upserts>>
fileVars == <<known_file, known_devices, connected_devices, unknown_devices, sink>>

----------------------------------------------------------------------------
(* Bounds *)

MaxHosts == 2
MaxCycles == 2
MaxFailAt == 2
\* the endless run: the latest time told apart, hosts per snapshot
MaxClock == 2
LiveHosts == 1

----------------------------------------------------------------------------
(* Python values *)

\* str.upper() on the strings that occur as hardware addresses
Upper(s) ==
  CASE s = "aa:01" -> "AA:01"
    [] s = "bb:02" -> "BB:02"
    [] s = "unknown" -> "UNKNOWN"
    [] OTHER -> s

\* dict.get(key, default)
DictGet(d, k, default) == IF k \in DOMAIN d THEN d[k] ELSE default

\* an empty dict
EmptyMap == [m \in {} |-> {}]

\* None / SQL NULL for a timestamp is <<>>, a timestamp t is <<t>>
NULL == <<>>

\* first_seen = now in place of COALESCE(first_seen, now)
Coalesce_Overwrite(v, now) == <<now>>

\* COALESCE(first_seen, now)
Coalesce(v, now) == IF v = NULL THEN <<now>> ELSE v

----------------------------------------------------------------------------
(* The environment: scan results, vendor table, initial registry *)

Ip5 == "10.0.0.5"
Ip6 == "10.0.0.6"

\* The entries nm_result[host] a scan can return, in the order of
\* all_hosts() (python-nmap sorts the host keys, and a key occurs once).
\* state() reads status; the keys addresses, tcp and udp may be missing;
\* tcp/udp list (port, port_data) in the dict's iteration order.
HostMenu ==
  << [status |-> "up", hostnames |-> <<>>, vendor |-> EmptyMap,
      addresses |-> [ipv4 |-> Ip6]],
     [status |-> "up", hostnames |-> << [name |-> "laptop"] >>,
      vendor |-> EmptyMap,
      addresses |-> [mac |-> "aa:01", ipv4 |-> Ip5]],
     [status |-> "down", hostnames |-> <<>>, vendor |-> EmptyMap,
      addresses |-> [mac |-> "AA:01", ipv4 |-> Ip5]],
     [status |-> "up", hostnames |-> << [name |-> "printer"] >>,
      vendor |-> [m \in {"AA:01"} |-> "Acme"],
      addresses |-> [mac |-> "AA:01", ipv4 |-> Ip6],
      tcp |-> << [port |-> 22, data |-> [state |-> "open", name |-> "ssh"]],
                 [port |-> 80, data |-> [state |-> "closed", name |-> "http"]] >>],
     [status |-> "up", hostnames |-> <<>>, vendor |-> EmptyMap,
      addresses |-> [mac |-> "BB:02"],
      udp |-> << [port |-> 53, data |-> [state |-> "open"]] >>],
     [status |-> "up", hostnames |-> <<>>, vendor |-> EmptyMap] >>

\* the hosts of HostMenu at the indices idx, in all_hosts() order
RECURSIVE Pick(_)
Pick(idx) ==
  IF idx = {} THEN <<>>
  ELSE LET i == CHOOSE x \in idx : \A y \in idx : x <= y
       IN <<HostMenu[i]>> \o Pick(idx \ {i})

\* all_hosts() of a successful scan: at most MaxHosts entries
Snapshots ==
  { Pick(idx) : idx \in { x \in SUBSET (1..Len(HostMenu)) : Cardinality(x) <= MaxHosts } }

\* MacLookup.lookup: the vendor, or VendorNotFoundError
MacLookup(mac) ==
  CASE mac = "AA:01" -> "Acme"
    [] OTHER -> "VendorNotFoundError"

\* get_vendor
get_vendor(mac) ==
  IF MacLookup(mac) = "VendorNotFoundError" THEN "Unknown" ELSE MacLookup(mac)

\* Rows the table devices may hold when the monitor starts. Rows with
\* known = TRUE, a description or a NULL first_seen are written by the
\* administrator: the monitor itself never writes them.
OldPorts == << [port |-> 443, service |-> "https"] >>

InitRowsAA ==
  { [mac_address |-> "AA:01", ip_address |-> Ip5,
     vendor |-> IF k THEN "Initech" ELSE "Acme",
     description |-> IF k THEN <<"printer">> ELSE NULL,
     known |-> k, state |-> s, first_seen |-> f, last_seen |-> <<0>>,
     open_ports |-> OldPorts]
    : k \in BOOLEAN, s \in {"up", "down"}, f \in {NULL, <<0>>} }

InitRowsBB ==
  { [mac_address |-> "BB:02", ip_address |-> Ip6, vendor |-> "Unknown",
     description |-> NULL, known |-> FALSE, state |-> "up",
     first_seen |-> <<0>>, last_seen |-> <<0>>, open_ports |-> <<>>] }

AsTable(rows) == [m \in {r.mac_address : r \in rows} |->
                    CHOOSE r \in rows : r.mac_address = m]

InitStores ==
  { AsTable(a \cup b) :
      a \in {{}} \cup {{r} : r \in InitRowsAA},
      b \in {{}} \cup {{r} : r \in InitRowsBB} }

\* the order in which SELECT returns rows and dict.items() iterates
RowOrder == << "AA:01", "BB:02" >>

----------------------------------------------------------------------------
(* app_with_postgres.py: PostgresDeviceManager *)

\* load_all_devices: {row.mac_address.upper(): Device(row)}; an exception is
\* logged and the dict built so far (empty) is returned.
load_all_devices(table, ok) ==
  IF ~ok THEN EmptyMap
  ELSE [m \in {Upper(k) : k \in DOMAIN table} |->
          LET row == table[CHOOSE k \in DOMAIN table : Upper(k) = m]
          IN [mac_address |-> m, ip_address |-> row.ip_address,
              vendor |-> row.vendor, description |-> row.description,
              known |-> row.known, state |-> row.state,
              first_seen |-> row.first_seen, last_seen |-> row.last_seen,
              open_ports |-> row.open_ports]]

\* an UPDATE that leaves last_seen alone
UpdateRow_NoLastSeen(row, device, now) ==
  [row EXCEPT !.ip_address = device.ip_address,
              !.state = device.state,
              !.open_ports = device.open_ports,
              !.first_seen = Coalesce(@, now)]

\* an UPDATE that also writes the known flag of the Device
UpdateRow_Known(row, device, now) ==
  [row EXCEPT !.ip_address = device.ip_address,
              !.state = device.state,
              !.known = device.known,
              !.last_seen = <<now>>,
              !.open_ports = device.open_ports,
              !.first_seen = Coalesce(@, now)]

\* an UPDATE with the two timestamp columns exchanged
UpdateRow_Swapped(row, device, now) ==
  [row EXCEPT !.ip_address = device.ip_address,
              !.state = device.state,
              !.first_seen = <<now>>,
              !.open_ports = device.open_ports,
              !.last_seen = Coalesce(@, now)]

\* an UPDATE that adds the observed ports to the stored ones
UpdateRow_MergePorts(row, device, now) ==
  [row EXCEPT !.ip_address = device.ip_address,
              !.state = device.state,
              !.last_seen = <<now>>,
              !.open_ports = @ \o device.open_ports,
              !.first_seen = Coalesce(@, now)]

\* an UPDATE that writes every column of the Device
UpdateRow_AllColumns(row, device, now) ==
  [row EXCEPT !.ip_address = device.ip_address,
              !.vendor = device.vendor,
              !.description = device.description,
              !.state = device.state,
              !.last_seen = <<now>>,
              !.open_ports = device.open_ports,
              !.first_seen = Coalesce(@, now)]

\* an UPDATE that leaves the state column alone
UpdateRow_NoState(row, device, now) ==
  [row EXCEPT !.ip_address = device.ip_address,
              !.last_seen = <<now>>,
              !.open_ports = device.open_ports,
              !.first_seen = Coalesce(@, now)]

\* the UPDATE statement of upsert_device
UpdateRow(row, device, now) ==
  [row EXCEPT !.ip_address = device.ip_address,
              !.state = device.state,
              !.last_seen = <<now>>,
              !.open_ports = device.open_ports,
              !.first_seen = Coalesce(@, now)]

\* the INSERT statement of upsert_device
InsertRow(device_mac, device, now) ==
  [mac_address |-> device_mac, ip_address |-> device.ip_address,
   vendor |-> device.vendor, description |-> device.description,
   known |-> device.known, state |-> device.state,
   first_seen |-> <<now>>, last_seen |-> <<now>>,
   open_ports |-> device.open_ports]

\* an upsert that removes the row of a device written as down
upsert_device_DropDown(table, device, now, ok) ==
  LET device_mac == Upper(device.mac_address)
  IN IF ~ok THEN table
     ELSE IF device_mac \in DOMAIN table
       THEN IF device.state = "down"
              THEN [m \in DOMAIN table \ {device_mac} |-> table[m]]
              ELSE [table EXCEPT ![device_mac] = UpdateRow(@, device, now)]
       ELSE [m \in DOMAIN table \cup {device_mac} |->
               IF m = device_mac THEN InsertRow(device_mac, device, now)
               ELSE table[m]]

\* upsert_device: the table after the call. ok = FALSE is an exception in
\* the connection or a statement: the transaction is not committed and the
\* error is logged.
upsert_device(table, device, now, ok) ==
  LET device_mac == Upper(device.mac_address)
  IN IF ~ok THEN table
     ELSE IF device_mac \in DOMAIN table
       THEN [table EXCEPT ![device_mac] = UpdateRow(@, device, now)]
       ELSE [m \in DOMAIN table \cup {device_mac} |->
               IF m = device_mac THEN InsertRow(device_mac, device, now)
               ELSE table[m]]

----------------------------------------------------------------------------
(* app_with_postgres.py: NetworkMonitorApp.scan_and_process *)

\* the open entries of nm_result[host][proto] as {"port", "service"} dicts
RECURSIVE OpenOf(_)
OpenOf(entries) ==
  IF entries = <<>> THEN <<>>
  ELSE LET e == Head(entries)
       IN (IF e.data.state = "open"
             THEN << [port |-> e.port,
                      service |-> DictGet(e.data, "name", "unknown")] >>
             ELSE <<>>) \o OpenOf(Tail(entries))

ExtractOpenPorts(h) ==
  (IF "tcp" \in DOMAIN h THEN OpenOf(h.tcp) ELSE <<>>)
  \o (IF "udp" \in DOMAIN h THEN OpenOf(h.udp) ELSE <<>>)

\* a new device marked known
NewDevice_Known(mac, ip, open_ports) ==
  [mac_address |-> mac, ip_address |-> ip, vendor |-> get_vendor(mac),
   description |-> NULL, known |-> TRUE, state |-> "up",
   first_seen |-> NULL, last_seen |-> NULL, open_ports |-> open_ports]

\* Device(...) of a brand new device
NewDevice(mac, ip, open_ports) ==
  [mac_address |-> mac, ip_address |-> ip, vendor |-> get_vendor(mac),
   description |-> NULL, known |-> FALSE, state |-> "up",
   first_seen |-> NULL, last_seen |-> NULL, open_ports |-> open_ports]

\* an upsert_device whose exception is not caught: it leaves the pass
CallUpsert_Raise(st, dev, fail) ==
  LET k == Len(st.calls) + 1
      ok == k \notin fail
  IN [st EXCEPT
        !.table = upsert_device(st.table, dev, st.now, ok),
        !.calls = Append(@, [device |-> dev, now |-> st.now, ok |-> ok,
                             existing |-> Upper(dev.mac_address) \in DOMAIN st.table]),
        !.now = @ + 1,
        !.err = IF ok THEN @ ELSE "Exception"]

\* one upsert_device call of the cycle, as the loop state st sees it:
\* the k-th call fails when k is in fail; every call reads the clock
CallUpsert(st, dev, fail) ==
  LET k == Len(st.calls) + 1
      ok == k \notin fail
  IN [st EXCEPT
        !.table = upsert_device(st.table, dev, st.now, ok),
        !.calls = Append(@, [device |-> dev, now |-> st.now, ok |-> ok,
                             existing |-> Upper(dev.mac_address) \in DOMAIN st.table]),
        !.now = @ + 1]

\* the address as reported, without .upper()
HostMac_Raw(h) == DictGet(h.addresses, "mac", "UNKNOWN")

\* mac = nm_result[host]['addresses'].get('mac', 'UNKNOWN').upper()
HostMac(h) == Upper(DictGet(h.addresses, "mac", "UNKNOWN"))

\* a host loop that takes the first host of an address and skips the rest
ProcessHost_FirstWins(st, h, fail) ==
  IF st.err # "none" THEN st
  ELSE IF h.status # "up" THEN st
  ELSE IF "addresses" \notin DOMAIN h THEN [st EXCEPT !.err = "KeyError"]
  ELSE
    LET mac == HostMac(h)
        ip == DictGet(h.addresses, "ipv4", "Unknown")
        open_ports == ExtractOpenPorts(h)
    IN IF mac = "UNKNOWN" \/ mac \in st.found THEN st
       ELSE IF mac \in DOMAIN st.devs
         THEN LET dev == [st.devs[mac] EXCEPT !.state = "up",
                                               !.ip_address = ip,
                                               !.open_ports = open_ports]
              IN CallUpsert([st EXCEPT !.found = @ \cup {mac},
                                       !.devs = [@ EXCEPT ![mac] = dev]],
                            dev, fail)
         ELSE CallUpsert([st EXCEPT !.found = @ \cup {mac},
                                    !.lookups = Append(@, mac)],
                         NewDevice(mac, ip, open_ports), fail)

\* a host loop that writes a loaded device only when the host changed it
ProcessHost_SkipUnchanged(st, h, fail) ==
  IF st.err # "none" THEN st
  ELSE IF h.status # "up" THEN st
  ELSE IF "addresses" \notin DOMAIN h THEN [st EXCEPT !.err = "KeyError"]
  ELSE
    LET mac == HostMac(h)
        ip == DictGet(h.addresses, "ipv4", "Unknown")
        open_ports == ExtractOpenPorts(h)
    IN IF mac = "UNKNOWN" THEN st
       ELSE IF mac \in DOMAIN st.devs
         THEN LET dev == [st.devs[mac] EXCEPT !.state = "up",
                                               !.ip_address = ip,
                                               !.open_ports = open_ports]
                  st1 == [st EXCEPT !.found = @ \cup {mac},
                                    !.devs = [@ EXCEPT ![mac] = dev]]
              IN IF dev = st.devs[mac] THEN st1 ELSE CallUpsert(st1, dev, fail)
         ELSE CallUpsert([st EXCEPT !.found = @ \cup {mac},
                                    !.lookups = Append(@, mac)],
                         NewDevice(mac, ip, open_ports), fail)

\* the body of `for host in all_hosts`
ProcessHost(st, h, fail) ==
  IF st.err # "none" THEN st
  ELSE IF h.status # "up" THEN st
  ELSE IF "addresses" \notin DOMAIN h THEN [st EXCEPT !.err = "KeyError"]
  ELSE
    LET mac == HostMac(h)
        ip == DictGet(h.addresses, "ipv4", "Unknown")
        open_ports == ExtractOpenPorts(h)
    IN IF mac = "UNKNOWN" THEN st
       ELSE IF mac \in DOMAIN st.devs
         THEN LET dev == [st.devs[mac] EXCEPT !.state = "up",
                                               !.ip_address = ip,
                                               !.open_ports = open_ports]
              IN CallUpsert([st EXCEPT !.found = @ \cup {mac},
                                       !.devs = [@ EXCEPT ![mac] = dev]],
                            dev, fail)
         ELSE CallUpsert([st EXCEPT !.found = @ \cup {mac},
                                    !.lookups = Append(@, mac)],
                         NewDevice(mac, ip, open_ports), fail)

RECURSIVE HostLoop(_, _, _)
HostLoop(st, hosts, fail) ==
  IF hosts = <<>> THEN st
  ELSE HostLoop(ProcessHost(st, Head(hosts), fail), Tail(hosts), fail)

\* MarkDown without the down-promotion
MarkDown_Never(st, mac, fail) == st

\* MarkDown without the test `device.state != "down"`
MarkDown_Always(st, mac, fail) ==
  IF st.err # "none" \/ mac \notin DOMAIN st.devs THEN st
  ELSE IF mac \notin st.found
    THEN LET dev == [st.devs[mac] EXCEPT !.state = "down"]
         IN CallUpsert([st EXCEPT !.devs = [@ EXCEPT ![mac] = dev]], dev, fail)
    ELSE st

\* the body of `for mac, device in all_devices.items()`
MarkDown(st, mac, fail) ==
  IF st.err # "none" \/ mac \notin DOMAIN st.devs THEN st
  ELSE IF mac \notin st.found /\ st.devs[mac].state # "down"
    THEN LET dev == [st.devs[mac] EXCEPT !.state = "down"]
         IN CallUpsert([st EXCEPT !.devs = [@ EXCEPT ![mac] = dev]], dev, fail)
    ELSE st

RECURSIVE DownLoop(_, _, _)
DownLoop(st, macs, fail) ==
  IF macs = <<>> THEN st
  ELSE DownLoop(MarkDown(st, Head(macs), fail), Tail(macs), fail)

\* scan_and_process after a scan that returned hosts
Reconcile(table, hosts, loadOk, fail, now) ==
  LET st0 == [devs |-> load_all_devices(table, loadOk), found |-> {},
              table |-> table, calls |-> <<>>, lookups |-> <<>>,
              now |-> now, err |-> "none"]
  IN DownLoop(HostLoop(st0, hosts, fail), RowOrder, fail)

\* the most upsert_device calls one cycle can make
MaxCalls == MaxHosts + Len(RowOrder)

\* How the store behaves in one cycle: whether load_all_devices succeeds and
\* which upsert_device calls (by position) raise. Either no call fails, or
\* one of the first MaxFailAt calls, or all of them.
StoreFaults ==
  { [loadOk |-> TRUE, fail |-> f] :
      f \in {{}} \cup {{k} : k \in 1..MaxFailAt} \cup {1..MaxCalls} }
  \cup { [loadOk |-> FALSE, fail |-> f] : f \in {{}, 1..MaxCalls} }

\* what scan_network returns: {} after an exception (ok = FALSE), else the
\* PortScanner with the hosts it found; without all_hosts the host list is []
ScanResults ==
  { [ok |-> FALSE, hosts |-> <<>>] }
  \cup { [ok |-> TRUE, hosts |-> hosts] : hosts \in Snapshots }

\* a truth test that takes the empty dict for a result
Truthy_Always(nm) == TRUE

\* bool(nm_result): {} is false, the PortScanner object is true
Truthy(nm) == nm.ok

\* One iteration of main's `while True` in app_with_postgres.py:
\* scan_and_process(network), then time.sleep(interval).
scan_and_process ==
  /\ app = "app_with_postgres" /\ alive /\ cycle < MaxCycles
  /\ cycle' = cycle + 1
  /\ \E nm \in ScanResults, fault \in StoreFaults :
       /\ nm_result' = nm
       /\ IF ~Truthy(nm)
            THEN \* `if not nm_result: return`
                 /\ outcome' = "scan_failed"
                 /\ loaded' = EmptyMap
                 /\ all_devices' = EmptyMap /\ found_macs' = {}
                 /\ upserts' = <<>> /\ lookups' = <<>>
                 /\ clock' = clock + 1
                 /\ UNCHANGED <<store, alive>>
            ELSE LET st == Reconcile(store, nm.hosts, fault.loadOk, fault.fail, clock)
                 IN /\ outcome' = IF st.err = "none" THEN "done" ELSE st.err
                    /\ alive' = (st.err = "none")
                    /\ loaded' = load_all_devices(store, fault.loadOk)
                    /\ all_devices' = st.devs /\ found_macs' = st.found
                    /\ upserts' = st.calls /\ lookups' = st.lookups
                    /\ store' = st.table
                    /\ clock' = st.now + 1
  /\ UNCHANGED <<app, fileVars, init_run>>

----------------------------------------------------------------------------
(* device.py: the dataclass Device that app.py, device_manager.py,          *)
(* influxdb_writer.py and network_monitor.py import                         *)

DeviceFields ==
  {"device_name", "mac_address", "device_type", "hostname", "state", "known", "vendor"}

\* vendor has the default None; the other fields have no default
DeviceRequired == DeviceFields \ {"vendor"}

\* whether Device(**kw) returns an instance: the generated __init__ raises
\* TypeError on a keyword that is no field and on a missing required field
DeviceAccepts(kw) ==
  /\ DOMAIN kw \subseteq DeviceFields
  /\ DeviceRequired \subseteq DOMAIN kw

\* the instance Device(**kw)
Device(kw) == [f \in DeviceFields |-> IF f \in DOMAIN kw THEN kw[f] ELSE NULL]

\* obj.attr = value on an instance (a dataclass instance takes new attributes)
SetAttr(obj, attr, value) ==
  [f \in DOMAIN obj \cup {attr} |-> IF f = attr THEN value ELSE obj[f]]

\* the devices of a list named by position: the returned lists hold the very
\* objects of known_devices, so they show every later mutation
Resolve(list, known) ==
  [i \in 1..Len(list) |-> IF list[i].ref = 0 THEN list[i].dev ELSE known[list[i].ref]]

----------------------------------------------------------------------------
(* device_manager.py: DeviceManager; app.py: run_monitoring_loop *)

\* load_known_devices, the loop over the JSON entries: an exception (here
\* the TypeError of Device(...)) ends the loop and the list built so far is
\* returned
RECURSIVE LoadKnownLoop(_, _)
LoadKnownLoop(entries, devices_list) ==
  IF entries = <<>> THEN devices_list
  ELSE LET d == Head(entries)
           kw == [mac_address |-> Upper(d.mac_address),
                  ip_address |-> DictGet(d, "ip_address", "Unknown"),
                  vendor |-> <<DictGet(d, "vendor", "Unknown")>>,
                  known |-> TRUE, state |-> "down"]
       IN IF ~DeviceAccepts(kw) THEN devices_list
          ELSE LoadKnownLoop(Tail(entries), Append(devices_list, Device(kw)))

load_known_devices(file) ==
  IF ~file.exists THEN <<>>
  ELSE IF ~file.valid THEN <<>>   \* json.JSONDecodeError, logged
  ELSE LoadKnownLoop(file.entries, <<>>)

\* known_dict = {dev.mac_address: dev for dev in known_devices}: the position
\* of the device the dict holds for mac (the last one), 0 when there is none
KnownDictRef(known, mac) ==
  LET hits == {i \in 1..Len(known) : known[i].mac_address = mac}
  IN IF hits = {} THEN 0 ELSE CHOOSE i \in hits : \A j \in hits : j <= i

\* the body of `for host in all_hosts` of merge_scan_results
MergeHost(st, h) ==
  IF st.err # "none" THEN st
  ELSE IF h.status # "up" THEN st
  ELSE IF "addresses" \notin DOMAIN h THEN [st EXCEPT !.err = "KeyError"]
  ELSE
    LET mac == Upper(DictGet(h.addresses, "mac", "UNKNOWN"))
        ip == DictGet(h.addresses, "ipv4", "Unknown")
    IN IF mac = "UNKNOWN" THEN st
       ELSE
         LET vendor == get_vendor(mac)
             st1 == [st EXCEPT !.lookups = Append(@, mac)]
             ref == KnownDictRef(st.known, mac)
             kw == [mac_address |-> mac, ip_address |-> ip,
                    vendor |-> <<vendor>>, known |-> FALSE, state |-> "up"]
         IN IF ref # 0
              THEN [st1 EXCEPT
                      !.known[ref] =
                         SetAttr(SetAttr(SetAttr(@, "state", "up"),
                                         "ip_address", ip), "vendor", <<vendor>>),
                      !.connected = Append(@, [ref |-> ref, dev |-> EmptyMap])]
              ELSE IF ~DeviceAccepts(kw) THEN [st1 EXCEPT !.err = "TypeError"]
              ELSE [st1 EXCEPT
                      !.unknown = Append(@, [ref |-> 0, dev |-> Device(kw)])]

RECURSIVE MergeLoop(_, _)
MergeLoop(st, hosts) ==
  IF hosts = <<>> THEN st
  ELSE MergeLoop(MergeHost(st, Head(hosts)), Tail(hosts))

\* merge_scan_results: known_devices after the call, the two lists it
\* returns, and the exception that left it, if any
merge_scan_results(known, hosts) ==
  MergeLoop([known |-> known, connected |-> <<>>, unknown |-> <<>>,
             lookups |-> <<>>, err |-> "none"], hosts)

\* One iteration of `while True` in run_monitoring_loop, then
\* time.sleep(interval). An exception of merge_scan_results is caught
\* nowhere and ends the process.
run_monitoring_loop ==
  /\ app = "app" /\ alive /\ cycle < MaxCycles
  /\ cycle' = cycle + 1
  /\ clock' = clock + 1
  /\ \E nm \in ScanResults :
       /\ nm_result' = nm
       /\ IF ~Truthy(nm)
            THEN \* "Network scan failed. Skipping this interval."
                 /\ outcome' = "scan_failed"
                 /\ connected_devices' = <<>> /\ unknown_devices' = <<>>
                 /\ lookups' = <<>>
                 /\ sink' = [written |-> FALSE, devices |-> <<>>]
                 /\ UNCHANGED <<known_devices, alive>>
            ELSE LET st == merge_scan_results(known_devices, nm.hosts)
                     connected == Resolve(st.connected, st.known)
                     unknown == Resolve(st.unknown, st.known)
                 IN /\ outcome' = IF st.err = "none" THEN "done" ELSE st.err
                    /\ alive' = (st.err = "none")
                    /\ known_devices' = st.known
                    /\ lookups' = st.lookups
                    /\ connected_devices' = IF st.err = "none" THEN connected ELSE <<>>
                    /\ unknown_devices' = IF st.err = "none" THEN unknown ELSE <<>>
                    /\ sink' = IF st.err = "none"
                                 THEN [written |-> TRUE, devices |-> connected \o unknown]
                                 ELSE [written |-> FALSE, devices |-> <<>>]
  /\ UNCHANGED <<app, known_file, pgVars, init_run>>

----------------------------------------------------------------------------
(* app.py: initialize_known_devices (--initialize) *)

\* init_run before and without --initialize
NotInitializing ==
  [state |-> "none", scan |-> [ok |-> FALSE, hosts |-> <<>>], lookups |-> <<>>]

\* the body of `for host in hosts`
InitHost(st, h) ==
  IF st.err # "none" THEN st
  ELSE IF h.status # "up" THEN st
  ELSE IF "addresses" \notin DOMAIN h THEN [st EXCEPT !.err = "KeyError"]
  ELSE
    LET mac == Upper(DictGet(h.addresses, "mac", "UNKNOWN"))
        ip == DictGet(h.addresses, "ipv4", "Unknown")
    IN IF mac = "UNKNOWN" THEN st
       ELSE [st EXCEPT
               !.lookups = Append(@, mac),
               !.new_known_devices =
                  Append(@, [mac_address |-> mac, ip_address |-> ip,
                             vendor |-> get_vendor(mac)])]

RECURSIVE InitLoop(_, _)
InitLoop(st, hosts) ==
  IF hosts = <<>> THEN st
  ELSE InitLoop(InitHost(st, Head(hosts)), Tail(hosts))

\* a dump that keeps what the file held
WriteKnown_Append(file, entries) ==
  [exists |-> TRUE, valid |-> TRUE,
   entries |-> (IF file.exists /\ file.valid THEN file.entries ELSE <<>>) \o entries]

\* open('w') and json.dump(new_known_devices, f)
WriteKnown(file, entries) ==
  [exists |-> TRUE, valid |-> TRUE, entries |-> entries]

\* the file after a write that raised: open() failed and the file is as it
\* was, or the dump stopped after open() truncated it
FailedWrites(file) ==
  { file, [exists |-> TRUE, valid |-> FALSE, entries |-> <<>>] }

\* main with --initialize: initialize_known_devices(network), then return
initialize_known_devices ==
  /\ app = "app" /\ alive /\ cycle = 0 /\ init_run.state = "none"
  /\ alive' = FALSE
  /\ \E nm \in ScanResults, writeOk \in BOOLEAN :
       IF ~Truthy(nm)
         THEN \* "Scan failed. Cannot initialize known_devices.json."
              /\ init_run' = [state |-> "scan_failed", scan |-> nm, lookups |-> <<>>]
              /\ known_file' = known_file
         ELSE LET st == InitLoop([new_known_devices |-> <<>>, lookups |-> <<>>,
                                  err |-> "none"], nm.hosts)
                  run(state) == [state |-> state, scan |-> nm, lookups |-> st.lookups]
              IN IF st.err # "none"
                   THEN init_run' = run(st.err) /\ known_file' = known_file
                 ELSE IF st.new_known_devices = <<>>
                   THEN \* "No devices found during the scan."
                        init_run' = run("nothing_found") /\ known_file' = known_file
                 ELSE IF writeOk
                   THEN /\ init_run' = run("initialized")
                        /\ known_file' = WriteKnown(known_file, st.new_known_devices)
                 ELSE /\ init_run' = run("write_failed")
                      /\ known_file' \in FailedWrites(known_file)
  /\ UNCHANGED <<app, cycle, clock, nm_result, outcome, lookups, pgVars,
                 known_devices, connected_devices, unknown_devices, sink>>

----------------------------------------------------------------------------
(* network_monitor.py *)

\* load_known_devices(file_path): the list comprehension over the JSON
\* entries; a missing file, a missing key or a TypeError is logged and []
\* is returned
NmLoadKnown(file) ==
  IF ~file.exists \/ ~file.valid THEN <<>>
  ELSE IF \E i \in 1..Len(file.entries) :
            ~({"device_name", "mac_address", "device_type"} \subseteq DOMAIN file.entries[i])
    THEN <<>>
  ELSE LET kw(d) == [device_name |-> d.device_name,
                      mac_address |-> Upper(d.mac_address),
                      device_type |-> d.device_type,
                      hostname |-> "Unknown", state |-> "down", known |-> TRUE]
       IN IF \E i \in 1..Len(file.entries) : ~DeviceAccepts(kw(file.entries[i]))
            THEN <<>>
            ELSE [i \in 1..Len(file.entries) |-> Device(kw(file.entries[i]))]

\* next((device for device in known_devices if device.mac_address == mac), None):
\* the position of the first match, 0 for None
FirstKnownRef(known, mac) ==
  LET hits == {i \in 1..Len(known) : known[i].mac_address = mac}
  IN IF hits = {} THEN 0 ELSE CHOOSE i \in hits : \A j \in hits : i <= j

\* the body of `for host in nm.all_hosts()` of process_scan_results; arp is
\* what get_mac_from_arp(host) returns: <<>> for None, else <<MAC>>
ProcessScanHost(st, h, arp) ==
  IF st.err # "none" THEN st
  ELSE IF h.status # "up" THEN st
  ELSE IF "addresses" \notin DOMAIN h THEN [st EXCEPT !.err = "KeyError"]
  ELSE
    LET mac0 == Upper(DictGet(h.addresses, "mac", "UNKNOWN"))
        hostname == IF h.hostnames # <<>> THEN h.hostnames[1].name ELSE "Unknown"
        mac == IF mac0 = "UNKNOWN"
                 THEN (IF arp = <<>> THEN "UNKNOWN" ELSE arp[1])
                 ELSE mac0
        vendor == IF mac # "UNKNOWN"
                    THEN <<DictGet(h.vendor, mac, "Unknown")>>
                    ELSE NULL
        fresh(m, name) == [device_name |-> name, mac_address |-> m,
                           device_type |-> "Unknown", hostname |-> hostname,
                           state |-> "up", known |-> FALSE, vendor |-> vendor]
        ref == FirstKnownRef(st.known, mac)
    IN IF mac = "UNKNOWN"
         THEN IF ~DeviceAccepts(fresh("UNKNOWN", "Unknown"))
                THEN [st EXCEPT !.err = "TypeError"]
                ELSE [st EXCEPT !.unknown =
                        Append(@, [ref |-> 0, dev |-> Device(fresh("UNKNOWN", "Unknown"))])]
       ELSE IF ref # 0
         THEN [st EXCEPT
                 !.known[ref] =
                    SetAttr(SetAttr(SetAttr(@, "hostname", hostname),
                                    "state", "up"), "vendor", vendor),
                 !.connected = Append(@, [ref |-> ref, dev |-> EmptyMap])]
       ELSE IF ~DeviceAccepts(fresh(mac, "Unknown"))
         THEN [st EXCEPT !.err = "TypeError"]
       ELSE [st EXCEPT !.unknown =
               Append(@, [ref |-> 0, dev |-> Device(fresh(mac, "Unknown"))])]

RECURSIVE ProcessScanLoop(_, _, _)
ProcessScanLoop(st, hosts, arp) ==
  IF hosts = <<>> THEN st
  ELSE ProcessScanLoop(ProcessScanHost(st, Head(hosts), arp), Tail(hosts), arp)

\* process_scan_results(nm, known_devices)
process_scan_results(known, hosts, arp) ==
  ProcessScanLoop([known |-> known, connected |-> <<>>, unknown |-> <<>>,
                   err |-> "none"], hosts, arp)

\* what the ARP table answers for a host nmap gave no MAC for
ArpAnswers == { <<>>, <<"BB:02">> }

\* One iteration of `while True` in network_monitor.main, then
\* time.sleep(interval)
nm_main_loop ==
  /\ app = "network_monitor" /\ alive /\ cycle < MaxCycles
  /\ cycle' = cycle + 1
  /\ clock' = clock + 1
  /\ \/ \* scan_network caught an exception and returned None
        /\ nm_result' = [ok |-> FALSE, hosts |-> <<>>]
        /\ outcome' = "scan_failed"
        /\ connected_devices' = <<>> /\ unknown_devices' = <<>>
        /\ sink' = [written |-> FALSE, devices |-> <<>>]
        /\ UNCHANGED <<known_devices, alive>>
     \/ \E hosts \in Snapshots, arp \in ArpAnswers :
          LET st == process_scan_results(known_devices, hosts, arp)
              connected == Resolve(st.connected, st.known)
              unknown == Resolve(st.unknown, st.known)
          IN /\ nm_result' = [ok |-> TRUE, hosts |-> hosts]
             /\ outcome' = IF st.err = "none" THEN "done" ELSE st.err
             /\ alive' = (st.err = "none")
             /\ known_devices' = st.known
             /\ connected_devices' = IF st.err = "none" THEN connected ELSE <<>>
             /\ unknown_devices' = IF st.err = "none" THEN unknown ELSE <<>>
             /\ sink' = IF st.err = "none"
                          THEN [written |-> TRUE, devices |-> connected \o unknown]
                          ELSE [written |-> FALSE, devices |-> <<>>]
  /\ UNCHANGED <<app, known_file, lookups, pgVars, init_run>>

----------------------------------------------------------------------------
(* The system *)

Apps == {"app_with_postgres", "app", "network_monitor"}

\* known_devices.json as app.py writes and reads it
AppKnownFiles ==
  { [exists |-> FALSE, valid |-> FALSE, entries |-> <<>>],
    [exists |-> TRUE, valid |-> TRUE, entries |-> <<>>],
    [exists |-> TRUE, valid |-> TRUE, entries |->
       << [mac_address |-> "AA:01", ip_address |-> Ip5, vendor |-> "Acme"] >>],
    [exists |-> TRUE, valid |-> TRUE, entries |->
       << [mac_address |-> "aa:01", ip_address |-> Ip5, vendor |-> "Acme"],
          [mac_address |-> "BB:02"] >>] }

\* known_devices.json as network_monitor.py reads it
NmKnownFiles ==
  { [exists |-> FALSE, valid |-> FALSE, entries |-> <<>>],
    [exists |-> TRUE, valid |-> TRUE, entries |->
       << [device_name |-> "printer", mac_address |-> "AA:01",
           device_type |-> "printer"] >>],
    [exists |-> TRUE, valid |-> TRUE, entries |->
       << [device_name |-> "laptop", mac_address |-> "aa:01",
           device_type |-> "computer"],
          [device_name |-> "phone", mac_address |-> "BB:02",
           device_type |-> "phone"] >>],
    [exists |-> TRUE, valid |-> TRUE, entries |-> << [mac_address |-> "AA:01"] >>] }

Init ==
  /\ app \in Apps
  /\ cycle = 0
  /\ clock = 1
  /\ nm_result = [ok |-> FALSE, hosts |-> <<>>]
  /\ outcome = "none"
  /\ loaded = EmptyMap
  /\ all_devices = EmptyMap /\ found_macs = {}
  /\ upserts = <<>> /\ lookups = <<>>
  /\ connected_devices = <<>> /\ unknown_devices = <<>>
  /\ sink = [written |-> FALSE, devices |-> <<>>]
  /\ init_run = NotInitializing
  /\ \/ /\ app = "app_with_postgres"
        /\ store \in InitStores
        /\ known_file = [exists |-> FALSE, valid |-> FALSE, entries |-> <<>>]
        /\ known_devices = <<>>
        /\ alive = TRUE
     \/ /\ app = "app"
        /\ store = EmptyMap
        /\ known_file \in AppKnownFiles
        /\ known_devices = load_known_devices(known_file)
        /\ alive = TRUE
     \/ /\ app = "network_monitor"
        /\ store = EmptyMap
        /\ known_file \in NmKnownFiles
        /\ known_devices = NmLoadKnown(known_file)
        \* main returns when no known device was loaded
        /\ alive = (known_devices # <<>>)

Next ==
  \/ scan_and_process
  \/ initialize_known_devices
  \/ run_monitoring_loop
  \/ nm_main_loop

Spec == Init /\ [][Next]_vars

----------------------------------------------------------------------------
(* The polling loop of app_with_postgres.py without an end *)

\* The run of `while True` has no last cycle. Its states stay finitely many
\* because the counters stop counting at their bounds: every time after
\* MaxClock reads as MaxClock, and cycle stays at MaxCycles.
FoldT(t) == IF t > MaxClock THEN MaxClock ELSE t

FoldTime(v) == IF v = NULL THEN NULL ELSE <<FoldT(v[1])>>

FoldTable(table) ==
  [m \in DOMAIN table |->
     [table[m] EXCEPT !.first_seen = FoldTime(@), !.last_seen = FoldTime(@)]]

FoldCalls(calls) ==
  [i \in 1..Len(calls) |-> [calls[i] EXCEPT !.now = FoldT(@)]]

\* one iteration of main's `while True` with the scan result nm and the
\* store behaving as fault: scan_and_process(network), time.sleep(interval)
LivePass(nm, fault) ==
  /\ app = "app_with_postgres" /\ alive
  /\ cycle' = IF cycle < MaxCycles THEN cycle + 1 ELSE cycle
  /\ nm_result' = nm
  /\ IF ~Truthy(nm)
       THEN /\ outcome' = "scan_failed"
            /\ loaded' = EmptyMap
            /\ all_devices' = EmptyMap /\ found_macs' = {}
            /\ upserts' = <<>> /\ lookups' = <<>>
            /\ clock' = FoldT(clock + 1)
            /\ UNCHANGED <<store, alive>>
       ELSE LET st == Reconcile(store, nm.hosts, fault.loadOk, fault.fail, clock)
            IN /\ outcome' = IF st.err = "none" THEN "done" ELSE st.err
               /\ alive' = (st.err = "none")
               /\ loaded' = load_all_devices(store, fault.loadOk)
               /\ all_devices' = st.devs /\ found_macs' = st.found
               /\ upserts' = FoldCalls(st.calls) /\ lookups' = st.lookups
               /\ store' = FoldTable(st.table)
               /\ clock' = FoldT(st.now + 1)
  /\ UNCHANGED <<app, fileVars, init_run>>

\* what scan_network returns in the endless run: at most LiveHosts hosts
LiveScans == { nm \in ScanResults : Len(nm.hosts) <= LiveHosts }

\* the loop: any scan result, any behaviour of the store
scan_and_process_forever ==
  \E nm \in LiveScans, fault \in StoreFaults : LivePass(nm, fault)

LiveInit == Init /\ app = "app_with_postgres"

LiveNext == scan_and_process_forever

\* main never leaves `while True` by itself: as long as no exception ends
\* the process, the next iteration comes (weak fairness of the loop)
LiveSpec ==
  LiveInit /\ [][LiveNext]_vars /\ WF_vars(scan_and_process_forever)

----------------------------------------------------------------------------
(* Vocabulary of the properties *)

\* the entries of the latest snapshot
Hosts == { nm_result.hosts[i] : i \in 1..Len(nm_result.hosts) }

\* an up entry that carries a hardware address / that carries none
UpWithMac(h) ==
  h.status = "up" /\ "addresses" \in DOMAIN h /\ "mac" \in DOMAIN h.addresses
UpWithoutMac(h) ==
  h.status = "up" /\ "addresses" \in DOMAIN h /\ "mac" \notin DOMAIN h.addresses

\* the hardware addresses observed up in the latest snapshot
SeenUp == { Upper(h.addresses.mac) : h \in { x \in Hosts : UpWithMac(x) } }

WellFormed == \A h \in Hosts : "addresses" \in DOMAIN h

Range(seq) == { seq[i] : i \in 1..Len(seq) }

\* the devices the latest cycle wrote with state up, returned or reported
UpOutputs ==
  { c.device : c \in { x \in Range(upserts) : x.device.state = "up" } }
  \cup Range(connected_devices) \cup Range(unknown_devices)

\* the upsert_device calls of the latest cycle for the address m
CallsFor(m) == { i \in 1..Len(upserts) : upserts[i].device.mac_address = m }

----------------------------------------------------------------------------
(* C1..C3 *)

C2_NoMacHostSkipped ==
  (nm_result.ok /\ WellFormed /\ \E h \in Hosts : UpWithoutMac(h)) =>
    /\ outcome = "done"
    /\ \A d \in UpOutputs : d.mac_address \in SeenUp
    /\ SeenUp \subseteq { d.mac_address : d \in UpOutputs }

\* C3 (as claimed): no two devices written by one scan_and_process pass,
\* and no two devices of the lists merge_scan_results returns, carry the
\* same hardware address.
C3_UniqueAddressInOutput ==
  outcome = "done" =>
    /\ \A i, j \in 1..Len(upserts) :
         i # j => upserts[i].device.mac_address # upserts[j].device.mac_address
    /\ app = "app" =>
         LET out == connected_devices \o unknown_devices
         IN \A i, j \in 1..Len(out) :
              i # j => out[i].mac_address # out[j].mac_address

----------------------------------------------------------------------------
(* C4..C6 *)

\* this step is a completed pass of scan_and_process
PassStep ==
  app = "app_with_postgres" /\ cycle' = cycle + 1 /\ outcome' = "done"

\* m was loaded in the latest pass and not observed up in it
AbsentLoaded(m) == m \in DOMAIN loaded /\ m \notin SeenUp

\* some upsert_device call of the latest cycle for m was committed
Committed(m) == \E i \in CallsFor(m) : upserts[i].ok

\* the time of the last committed upsert_device call for m
LastCommit(m) ==
  LET oks == { i \in CallsFor(m) : upserts[i].ok }
  IN upserts[CHOOSE i \in oks : \A j \in oks : j <= i].now

\* C4 (as claimed): a registry device loaded up and absent from the
\* snapshot is written once, with state down; when the next pass loads it
\* and it is absent again, that pass performs no write for it.
C4_Original ==
  [][ PassStep =>
        /\ \A m \in DOMAIN loaded' :
             (m \notin SeenUp' /\ loaded'[m].state = "up")
               => /\ Cardinality(CallsFor(m)') = 1
                  /\ \A i \in CallsFor(m)' : upserts'[i].device.state = "down"
        /\ outcome = "done" =>
             \A m \in DOMAIN loaded \cap DOMAIN loaded' :
                (AbsentLoaded(m) /\ loaded[m].state = "up" /\ m \notin SeenUp')
                  => CallsFor(m)' = {} ]_vars

\* C4 (amended): the first pass issues exactly one write for the device,
\* with state down; the next pass performs no write for it when that write
\* was committed, and issues the write again when it failed.
C4_DownWrittenOnce ==
  [][ PassStep =>
        /\ \A m \in DOMAIN loaded' :
             (m \notin SeenUp' /\ loaded'[m].state = "up")
               => /\ Cardinality(CallsFor(m)') = 1
                  /\ \A i \in CallsFor(m)' : upserts'[i].device.state = "down"
        /\ outcome = "done" =>
             \A m \in DOMAIN loaded \cap DOMAIN loaded' :
                (AbsentLoaded(m) /\ loaded[m].state = "up" /\ m \notin SeenUp')
                  => IF Committed(m) THEN CallsFor(m)' = {}
                     ELSE Cardinality(CallsFor(m)') = 1 ]_vars

\* second of two passes that both missed a device loaded up by the first,
\* whose down-write was committed: the second pass wrote nothing for it
C4_Witness ==
  /\ app = "app_with_postgres" /\ outcome = "done" /\ cycle = 2
  /\ \E m \in DOMAIN loaded :
       /\ AbsentLoaded(m) /\ loaded[m].state = "down" /\ CallsFor(m) = {}
       /\ store[m].state = "down" /\ store[m].last_seen # <<0>>

C6_Original ==
  outcome = "done" =>
    \A m \in DOMAIN loaded :
       (loaded[m].state = "down" /\ m \in SeenUp)
         => /\ all_devices[m].state = "up"
            /\ CallsFor(m) # {}
            /\ store[m].first_seen = loaded[m].first_seen
            /\ store[m].last_seen[1] > loaded[m].last_seen[1]

\* C6 (amended): such a device is set to up and upserted with state up;
\* when an upsert for it commits, the stored state is up, last_seen moves
\* forward to the time of the commit and first_seen is kept if it was set
\* (a NULL first_seen becomes the time of the first commit); when none
\* commits, the stored record is as it was loaded.
C6_DownToUp ==
  outcome = "done" =>
    \A m \in DOMAIN loaded :
       (loaded[m].state = "down" /\ m \in SeenUp)
         => /\ all_devices[m].state = "up"
            /\ CallsFor(m) # {}
            /\ \A i \in CallsFor(m) : upserts[i].device.state = "up"
            /\ IF Committed(m)
                 THEN /\ store[m].state = "up"
                      /\ store[m].last_seen = <<LastCommit(m)>>
                      /\ LastCommit(m) > loaded[m].last_seen[1]
                      /\ loaded[m].first_seen # NULL
                           => store[m].first_seen = loaded[m].first_seen
                      /\ loaded[m].first_seen = NULL
                           => store[m].first_seen # NULL
                 ELSE /\ store[m].state = "down"
                      /\ store[m].last_seen = loaded[m].last_seen
                      /\ store[m].first_seen = loaded[m].first_seen

\* a device loaded down with a first_seen, observed up, upsert committed
C6_Witness ==
  /\ outcome = "done"
  /\ \E m \in DOMAIN loaded :
       /\ loaded[m].state = "down" /\ m \in SeenUp
       /\ loaded[m].first_seen # NULL
       /\ Committed(m) /\ store[m].state = "up"

----------------------------------------------------------------------------
(* C7..C10 *)

\* the up hosts of the latest snapshot that carry the address m
HostsOf(m) == { h \in Hosts : UpWithMac(h) /\ Upper(h.addresses.mac) = m }

\* C7: every Device the pass builds for an address that is not in the
\* loaded registry has known = FALSE, state = up, the resolver's vendor and
\* the network address and open services of a host observed with that
\* address; the row its INSERT creates has first_seen = the time of the
\* INSERT, equal to last_seen unless a later upsert of the pass updated the
\* row; with an empty registry and one such host one upsert is issued.
C7_NewDevice ==
  /\ \A i \in 1..Len(upserts) :
       LET c == upserts[i]
           d == c.device
           m == d.mac_address
       IN m \notin DOMAIN loaded =>
            /\ d.known = FALSE /\ d.state = "up"
            /\ d.vendor = get_vendor(m)
            /\ d.description = NULL
            /\ \E h \in HostsOf(m) :
                  /\ d.ip_address = DictGet(h.addresses, "ipv4", "Unknown")
                  /\ d.open_ports = ExtractOpenPorts(h)
            /\ (c.ok /\ ~c.existing) =>
                  /\ store[m].first_seen = <<c.now>>
                  /\ store[m].last_seen = <<LastCommit(m)>>
                  /\ c.now <= LastCommit(m)
                  /\ store[m].known = FALSE
                  /\ store[m].vendor = get_vendor(m)
  /\ (app = "app_with_postgres" /\ outcome = "done"
        /\ DOMAIN loaded = {} /\ Cardinality(SeenUp) = 1
        /\ Cardinality({ h \in Hosts : UpWithMac(h) }) = 1)
       => Len(upserts) = 1

\* Scenario B: empty table, one up host with an unseen address, its INSERT
\* committed
C7_Witness ==
  /\ outcome = "done" /\ cycle = 1 /\ DOMAIN loaded = {}
  /\ Len(upserts) = 1 /\ upserts[1].ok /\ ~upserts[1].existing
  /\ DOMAIN store = { upserts[1].device.mac_address }
  /\ \A m \in DOMAIN store :
       store[m].first_seen = store[m].last_seen /\ store[m].known = FALSE

\* C8: no cycle changes the known flag of a stored record, of a loaded
\* device or of a device of known_devices.
C8_KnownUnchanged ==
  [][ /\ \A m \in DOMAIN store :
           m \in DOMAIN store' /\ store'[m].known = store[m].known
      /\ \A m \in DOMAIN all_devices' :
           /\ m \in DOMAIN loaded'
           /\ all_devices'[m].known = loaded'[m].known
           /\ m \in DOMAIN store /\ loaded'[m].known = store[m].known
      /\ Len(known_devices') = Len(known_devices)
      /\ \A i \in 1..Len(known_devices) :
           known_devices'[i].known = known_devices[i].known ]_vars

\* a known record and a not-known record were both observed up and
\* updated, and kept their flags
C8_Witness ==
  /\ outcome = "done"
  /\ \E m \in DOMAIN store :
       store[m].known /\ m \in SeenUp /\ Committed(m)
  /\ \E m \in DOMAIN loaded :
       ~store[m].known /\ m \in SeenUp /\ Committed(m)

\* C9: every stored record with both timestamps has first_seen <= last_seen.
C9_FirstSeenBeforeLastSeen ==
  \A m \in DOMAIN store :
     (store[m].first_seen # NULL /\ store[m].last_seen # NULL)
       => store[m].first_seen[1] <= store[m].last_seen[1]

\* a record inserted in the first cycle and updated in the second
C9_Witness ==
  /\ cycle = 2
  /\ \E m \in DOMAIN store :
       /\ store[m].first_seen # NULL
       /\ store[m].first_seen[1] >= 1
       /\ store[m].first_seen[1] < store[m].last_seen[1]
       /\ \E i \in CallsFor(m) : upserts[i].ok /\ upserts[i].existing

----------------------------------------------------------------------------
(* C11..C20 *)

\* this step is one polling cycle of app_with_postgres.py or app.py
CycleStep == app \in {"app_with_postgres", "app"} /\ cycle' = cycle + 1

\* C11: a cycle whose scan failed reconciles nothing: the table, the known
\* devices and their states are as before, no upsert and no vendor lookup
\* is issued, nothing is written to InfluxDB, and the loop goes on.
C11_ScanFailureSkipsCycle ==
  [][ (CycleStep /\ ~nm_result'.ok) =>
        /\ store' = store
        /\ upserts' = <<>> /\ lookups' = <<>>
        /\ all_devices' = EmptyMap
        /\ known_devices' = known_devices
        /\ connected_devices' = <<>> /\ unknown_devices' = <<>>
        /\ ~sink'.written
        /\ alive' = alive ]_vars

\* a failed scan in the cycle after one that wrote an up device: the table
\* still shows it up
C11_Witness ==
  /\ app = "app_with_postgres" /\ cycle = 2 /\ ~nm_result.ok
  /\ outcome = "scan_failed" /\ upserts = <<>> /\ alive
  /\ \E m \in DOMAIN store : store[m].state = "up" /\ store[m].last_seen # <<0>>

\* C12: the upserts a pass attempts do not depend on which of them fail:
\* the pass issues the same calls, for the same devices in the same order,
\* as it would with a store that commits every one, and it ends the same
\* way; with hosts that all carry an addresses object it completes.
C12_UpsertsIndependent ==
  [][ (app = "app_with_postgres" /\ cycle' = cycle + 1 /\ nm_result'.ok) =>
        /\ \E loadOk \in BOOLEAN :
             /\ loaded' = load_all_devices(store, loadOk)
             /\ LET ref == Reconcile(store, nm_result'.hosts, loadOk, {}, clock)
                IN /\ Len(upserts') = Len(ref.calls)
                   /\ \A i \in 1..Len(ref.calls) :
                        upserts'[i].device = ref.calls[i].device
                   /\ outcome' = IF ref.err = "none" THEN "done" ELSE ref.err
        /\ WellFormed' => outcome' = "done" /\ alive' ]_vars

\* the upsert of an observed device failed, and the later down-write of an
\* absent device was attempted and committed
C12_Witness ==
  /\ outcome = "done"
  /\ \E i, j \in 1..Len(upserts) :
       /\ i < j /\ ~upserts[i].ok /\ upserts[i].device.state = "up"
       /\ upserts[j].ok /\ upserts[j].device.state = "down"
       /\ store[upserts[j].device.mac_address].state = "down"

\* this step is a run of initialize_known_devices
InitStep == init_run.state = "none" /\ init_run'.state # "none"

\* the entry initialize_known_devices writes for a host
KnownEntry(h) ==
  [mac_address |-> Upper(h.addresses.mac),
   ip_address |-> DictGet(h.addresses, "ipv4", "Unknown"),
   vendor |-> get_vendor(Upper(h.addresses.mac))]

\* the entries of the up hosts with a hardware address, in scan order
KnownEntries(hosts) ==
  LET found == SelectSeq(hosts, UpWithMac)
  IN [i \in 1..Len(found) |-> KnownEntry(found[i])]

\* the known-device list a file holds; no list without a readable file
KnownList(file) == IF file.exists /\ file.valid THEN file.entries ELSE <<>>

MacsOf(devices) == { devices[i].mac_address : i \in 1..Len(devices) }

\* C14: no cycle removes a device: every address the table holds before a
\* cycle it holds after it, the pass drops no device from the dict it
\* loaded, and known_devices loses no device.
C14_NeverDeletes ==
  [][ cycle' = cycle + 1 =>
        /\ DOMAIN store \subseteq DOMAIN store'
        /\ DOMAIN loaded' \subseteq DOMAIN all_devices'
        /\ (nm_result'.ok /\ DOMAIN loaded' # {}) => DOMAIN store \subseteq DOMAIN loaded'
        /\ MacsOf(known_devices) \subseteq MacsOf(known_devices') ]_vars

\* a device the monitor inserted in the first cycle was absent in the
\* second, written as down, and is still in the table beside the others
C14_Witness ==
  /\ cycle = 2 /\ outcome = "done"
  /\ \E m \in DOMAIN store :
       /\ m \notin SeenUp /\ Committed(m)
       /\ store[m].state = "down"
       /\ store[m].first_seen # NULL /\ store[m].first_seen[1] >= 1
  /\ Cardinality(DOMAIN store) = 2

\* C15 (as claimed): a pass whose snapshot holds an up host without an
\* addresses object completes and the loop stays alive; the hosts that
\* carry a hardware address are upserted and the loaded devices that were
\* not observed are down.
C15_NoAddressesHostSkipped ==
  (app = "app_with_postgres" /\ nm_result.ok
     /\ \E h \in Hosts : h.status = "up" /\ "addresses" \notin DOMAIN h) =>
    /\ alive /\ outcome = "done"
    /\ \A m \in SeenUp : CallsFor(m) # {}
    /\ \A m \in DOMAIN loaded \ SeenUp : all_devices[m].state = "down"

\* C16 (as claimed): a pass whose load_all_devices failed on a table that
\* holds devices issues no upsert and no vendor lookup.
C16_LoadFailureSkipsCycle ==
  [][ (app = "app_with_postgres" /\ cycle' = cycle + 1 /\ nm_result'.ok
         /\ DOMAIN store # {} /\ loaded' = EmptyMap) =>
        upserts' = <<>> /\ lookups' = <<>> ]_vars

\* the loaded devices the latest snapshot did not observe and that were
\* not loaded as down
AbsentNotDown == { m \in DOMAIN loaded : m \notin SeenUp /\ loaded[m].state # "down" }

\* C17: a completed pass of scan_and_process writes exactly the devices
\* observed up (once per host that reported the address, changed or not)
\* and the loaded devices that were not observed and not loaded as down
\* (once each); after an empty snapshot the number of writes is the number
\* of loaded devices that were not down.
C17_ChangeSetExact ==
  (app = "app_with_postgres" /\ outcome = "done") =>
    /\ { upserts[i].device.mac_address : i \in 1..Len(upserts) }
         = SeenUp \cup AbsentNotDown
    /\ \A m \in SeenUp : Cardinality(CallsFor(m)) = Cardinality(HostsOf(m))
    /\ \A m \in AbsentNotDown : Cardinality(CallsFor(m)) = 1
    /\ Hosts = {} => Len(upserts) = Cardinality(AbsentNotDown)

\* a pass wrote a loaded device that its host left exactly as loaded, and
\* wrote the one absent device that was loaded up
C17_Witness ==
  /\ app = "app_with_postgres" /\ outcome = "done"
  /\ \E m \in SeenUp \cap DOMAIN loaded :
       \E i \in CallsFor(m) : upserts[i].device = loaded[m]
  /\ Cardinality(AbsentNotDown) = 1
  /\ Len(upserts) = 2

\* the vendor known_devices.json records for the address m, if it lists m
FileVendors(m) ==
  { DictGet(e, "vendor", "Unknown") :
      e \in { x \in Range(KnownList(known_file)) : Upper(x.mac_address) = m } }

\* C18 (as claimed): a cycle consults the vendor resolver only for
\* addresses that the registry it works on (the devices load_all_devices
\* returned, the devices known_devices.json lists) does not hold or holds
\* with the vendor Unknown, and a registry device keeps its vendor.
C18_VendorLookupOnlyForNew ==
  [][ (CycleStep /\ nm_result'.ok) =>
        /\ app = "app_with_postgres" =>
             /\ \A j \in 1..Len(lookups') :
                  lookups'[j] \in DOMAIN loaded'
                    => loaded'[lookups'[j]].vendor = "Unknown"
             /\ \A m \in DOMAIN loaded' :
                  /\ all_devices'[m].vendor = loaded'[m].vendor
                  /\ store'[m].vendor = store[m].vendor
        /\ app = "app" =>
             \A j \in 1..Len(lookups') :
                FileVendors(lookups'[j]) \subseteq {"Unknown"} ]_vars

\* the positions in the latest snapshot of the up hosts that report m
HostIdx(m) ==
  { i \in 1..Len(nm_result.hosts) :
      UpWithMac(nm_result.hosts[i]) /\ Upper(nm_result.hosts[i].addresses.mac) = m }

\* the k-th smallest element of a set of numbers
Nth(S, k) == CHOOSE x \in S : Cardinality({ y \in S : y <= x }) = k

\* the last host that reports m
LastHost(m) == nm_result.hosts[Nth(HostIdx(m), Cardinality(HostIdx(m)))]

\* the upsert calls for m that observed it up, and the committed ones: the
\* k-th such call is made for the k-th host that reports m
UpCalls(m) == { i \in CallsFor(m) : upserts[i].device.state = "up" }
UpCommits(m) == { i \in UpCalls(m) : upserts[i].ok }

\* the last host that reports m whose upsert was committed
LastCommittedHost(m) ==
  LET last == Nth(UpCommits(m), Cardinality(UpCommits(m)))
  IN nm_result.hosts[Nth(HostIdx(m), Cardinality({ j \in UpCalls(m) : j <= last }))]

\* the entries a host reports as open in the lists tcp and udp
OpenEntries(h) ==
  { e \in (IF "tcp" \in DOMAIN h THEN Range(h.tcp) ELSE {})
            \cup (IF "udp" \in DOMAIN h THEN Range(h.udp) ELSE {}) :
      e.data.state = "open" }

\* ports is exactly what h reports as open: every entry of ports is an open
\* port of h with its service name, and every open port of h is in ports
ExactlyReported(ports, h) ==
  /\ Range(ports) = { [port |-> e.port, service |-> DictGet(e.data, "name", "unknown")] :
                        e \in OpenEntries(h) }
  /\ Len(ports) = Cardinality(OpenEntries(h))

\* C19 (as claimed): after a pass that observed a loaded device, its stored
\* open_ports are exactly the open entries a host of this snapshot
\* reported for it.
C19_Original ==
  [][ PassStep =>
        \A m \in DOMAIN loaded' \cap SeenUp' :
           \E h \in HostsOf(m)' : ExactlyReported(store'[m].open_ports, h) ]_vars

\* C19 (amended): after a pass that observed a loaded device, the Device in
\* the loaded registry holds exactly the open entries of the last host
\* that reported it; the stored open_ports are exactly the open entries of
\* the last such host whose upsert was committed, with nothing of the
\* earlier value, and are unchanged when no upsert for it was committed.
C19_OpenPortsReplaced ==
  [][ PassStep =>
        \A m \in DOMAIN loaded' \cap SeenUp' :
           /\ ExactlyReported(all_devices'[m].open_ports, LastHost(m)')
           /\ IF UpCommits(m)' # {}
                THEN ExactlyReported(store'[m].open_ports, LastCommittedHost(m)')
                ELSE store'[m].open_ports = store[m].open_ports ]_vars

\* the record held port 443; the host reported 22 open and 80 closed; the
\* record now holds 22 alone
C19_Witness ==
  /\ app = "app_with_postgres" /\ outcome = "done" /\ cycle = 1
  /\ "AA:01" \in DOMAIN loaded /\ loaded["AA:01"].open_ports = OldPorts
  /\ Committed("AA:01")
  /\ store["AA:01"].open_ports = << [port |-> 22, service |-> "ssh"] >>

\* the addresses that several up hosts of the latest snapshot report
Duplicated == { m \in SeenUp : Cardinality(HostIdx(m)) >= 2 }

\* row carries the network address and the open ports of the host h
Carries(row, h) ==
  /\ row.ip_address = DictGet(h.addresses, "ipv4", "Unknown")
  /\ ExactlyReported(row.open_ports, h)

\* C20 (as claimed): after a pass whose snapshot reports an address on
\* several up hosts, the table holds one record for it, with the network
\* address and the open ports of the last of these hosts.
C20_Original ==
  [][ PassStep =>
        \A m \in Duplicated' :
           m \in DOMAIN store' /\ Carries(store'[m], LastHost(m)') ]_vars

\* C20 (amended): one upsert is issued per host, in iteration order. A
\* loaded Device carries the values of the last host; the stored record
\* carries those of the last host whose upsert was committed; when none
\* was committed a stored record is as before and a new address has none.
C20_LastObservationWins ==
  [][ PassStep =>
        \A m \in Duplicated' :
           /\ Cardinality(UpCalls(m)') = Cardinality(HostIdx(m)')
           /\ m \in DOMAIN loaded' => Carries(all_devices'[m], LastHost(m)')
           /\ IF UpCommits(m)' # {}
                THEN /\ m \in DOMAIN store'
                     /\ Carries(store'[m], LastCommittedHost(m)')
                     /\ upserts'[Nth(UpCalls(m)', Cardinality(UpCalls(m)'))].ok
                          => Carries(store'[m], LastHost(m)')
                ELSE IF m \in DOMAIN store
                       THEN /\ store'[m].ip_address = store[m].ip_address
                            /\ store'[m].open_ports = store[m].open_ports
                       ELSE m \notin DOMAIN store' ]_vars

\* a new address reported by 10.0.0.5 and then by 10.0.0.6: both upserts
\* committed and the one record holds 10.0.0.6 and its port 22
C20_Witness ==
  /\ app = "app_with_postgres" /\ outcome = "done" /\ cycle = 1
  /\ Duplicated = {"AA:01"} /\ "AA:01" \notin DOMAIN loaded
  /\ \A i \in 1..Len(upserts) : upserts[i].ok
  /\ DOMAIN store = {"AA:01"}
  /\ store["AA:01"].ip_address = Ip6
  /\ store["AA:01"].open_ports = << [port |-> 22, service |-> "ssh"] >>

\* the same with the address already in the registry
C20_WitnessLoaded ==
  /\ app = "app_with_postgres" /\ outcome = "done"
  /\ Duplicated = {"AA:01"} /\ "AA:01" \in DOMAIN loaded
  /\ \A i \in 1..Len(upserts) : upserts[i].ok
  /\ store["AA:01"].ip_address = Ip6 /\ all_devices["AA:01"].ip_address = Ip6

----------------------------------------------------------------------------
(* C21..C23 *)

\* the last committed upsert_device call of the latest cycle for m
LastCommitCall(m) ==
  LET oks == { i \in CallsFor(m) : upserts[i].ok }
  IN upserts[CHOOSE i \in oks : \A j \in oks : j <= i]

\* C21: upsert_device on an address that has a record leaves the record's
\* mac_address, vendor, known and description as they were, whatever the
\* Device carries, and a first_seen that was set; it writes ip_address,
\* state and open_ports of the Device, last_seen = now, and first_seen =
\* now when it was NULL. A record with no committed upsert is unchanged.
C21_UpsertFrame ==
  [][ \A m \in DOMAIN store :
        /\ m \in DOMAIN store'
        /\ store'[m].mac_address = store[m].mac_address
        /\ store'[m].vendor = store[m].vendor
        /\ store'[m].known = store[m].known
        /\ store'[m].description = store[m].description
        /\ store[m].first_seen # NULL => store'[m].first_seen = store[m].first_seen
        /\ IF cycle' = cycle + 1 /\ Committed(m)'
             THEN LET c == LastCommitCall(m)'
                  IN /\ store'[m].ip_address = c.device.ip_address
                     /\ store'[m].state = c.device.state
                     /\ store'[m].open_ports = c.device.open_ports
                     /\ store'[m].last_seen = <<c.now>>
                     /\ store'[m].first_seen # NULL
                     /\ store[m].first_seen = NULL =>
                          \E i \in CallsFor(m)' :
                             upserts'[i].ok /\ store'[m].first_seen = <<upserts'[i].now>>
             ELSE store'[m] = store[m] ]_vars

\* an upsert on the stored record of a known device was committed with a
\* Device that carries another vendor, known = False and no description
\* (built after a failed load); the record kept its own
C21_Witness ==
  \E m \in DOMAIN store :
     \E i \in CallsFor(m) :
        /\ upserts[i].ok /\ upserts[i].existing
        /\ upserts[i].device.vendor # store[m].vendor
        /\ upserts[i].device.known # store[m].known
        /\ upserts[i].device.description # store[m].description
        /\ store[m].ip_address = upserts[i].device.ip_address
        /\ store[m].last_seen = <<upserts[i].now>>

\* C23 (as claimed): a cycle of run_monitoring_loop leaves the set of
\* addresses of known_devices as it was, returns every observed address
\* that is not in it as an unknown Device with known = FALSE and state up,
\* and hands only devices with state up to InfluxDB.
C23_UnknownReturnedEachCycle ==
  [][ (app = "app" /\ cycle' = cycle + 1 /\ nm_result'.ok /\ WellFormed') =>
        /\ MacsOf(known_devices') = MacsOf(known_devices)
        /\ outcome' = "done" /\ sink'.written
        /\ \A m \in SeenUp' \ MacsOf(known_devices) :
             \E i \in 1..Len(unknown_devices') :
                /\ unknown_devices'[i].mac_address = m
                /\ unknown_devices'[i].known = FALSE
                /\ unknown_devices'[i].state = "up"
        /\ \A i \in 1..Len(sink'.devices) : sink'.devices[i].state = "up" ]_vars

\* the addresses the table may hold from the start
StoredMacs == { RowOrder[i] : i \in 1..Len(RowOrder) }

\* the record of m, if there is one, is down and the latest cycle issued
\* no write for m
DownAndQuiet(m) ==
  m \in DOMAIN store => (store[m].state = "down" /\ CallsFor(m) = {})

\* the latest cycle's scan succeeded, the store handed out the record of m
\* and accepted every write for m
StoreAccepted(m) ==
  /\ nm_result.ok /\ outcome = "done"
  /\ m \in DOMAIN loaded
  /\ \A i \in CallsFor(m) : upserts[i].ok

\* C22: when a completed pass misses a device it loaded as not down, it
\* issues one down-write for it, and when that write fails the stored state
\* is as before; and if the loop stays alive, no snapshot ever reports the
\* device, scans keep succeeding and the store accepts again and again, then
\* from some cycle on the stored state of the device is down and no cycle
\* writes it.
C22_DownWriteRetried ==
  /\ [][ \A m \in DOMAIN loaded' :
            (nm_result'.ok /\ outcome' = "done" /\ m \notin SeenUp'
               /\ loaded'[m].state # "down")
              => /\ Cardinality(CallsFor(m)') = 1
                 /\ ~Committed(m)' => store'[m].state = store[m].state ]_vars
  /\ \A m \in StoredMacs :
        ([](alive /\ m \notin SeenUp) /\ []<>StoreAccepted(m))
          => <>[]DownAndQuiet(m)

\* a pass missed a device loaded as up and its down-write failed: the
\* stored state is still up and the loop is alive
C22_Witness ==
  /\ app = "app_with_postgres" /\ outcome = "done" /\ alive
  /\ \E m \in DOMAIN loaded :
       /\ m \notin SeenUp /\ loaded[m].state = "up"
       /\ CallsFor(m) # {} /\ ~Committed(m)
       /\ store[m].state = "up"

====
